---- MODULE Spec2Model ----
(***************************************************************************)
(* Golf driving range (src/src/App.tsx): the trajectory synthesizer        *)
(* calculateRealisticTrajectory and the React application around it        *)
(* (App, AnimatedGolfBall, TrailLines).                                    *)
(*                                                                         *)
(* Numbers.  A JavaScript number is modelled in fixed point: the integer n *)
(* stands for n / Unit.  Every arithmetic operation rounds its exact       *)
(* result to the nearest representable value, as IEEE-754 does, only at a  *)
(* coarser resolution.  Unit is chosen so that i/80, i/20 and the products *)
(* the x and z coordinates are built from are exact.                       *)
(***************************************************************************)
EXTENDS Integers, Sequences, FiniteSets, TLC

VARIABLES
    data,               \* calculateRealisticTrajectory: its argument
    points,             \* calculateRealisticTrajectory: the returned array
    currentTrajectory,  \* App state (useState, line 358)
    shotHistory,        \* App state (line 359)
    currentShotData,    \* App state (line 360); NoShot stands for null
    isAnimating,        \* App state (line 361)
    currentIndex,       \* AnimatedGolfBall state (line 39)
    interval,           \* the live setInterval of AnimatedGolfBall's effect
    visibleShots,       \* TrailLines: the slice it rendered last
    consoleErrors       \* error lines on the console (cap MaxErrors)

vars == <<data, points, currentTrajectory, shotHistory, currentShotData,
          isAnimating, currentIndex, interval, visibleShots, consoleErrors>>

appVars == <<currentTrajectory, shotHistory, currentShotData, isAnimating,
             currentIndex, interval, visibleShots, consoleErrors>>

-----------------------------------------------------------------------------
(* Fixed-point numbers *)

flightSteps == 80

rollSteps == 20

Unit == flightSteps * rollSteps * 5

Num(n) == n * Unit

Abs(a) == IF a < 0 THEN 0 - a ELSE a

RECURSIVE GCD(_, _)
GCD(a, b) == IF b = 0 THEN a ELSE GCD(b, a % b)

\* n / d rounded to the nearest integer (d > 0)
RoundDiv(n, d) == (2 * n + d) \div (2 * d)

\* a * b
MulSplit(a, b) == (a \div Unit) * b + RoundDiv((a % Unit) * b, Unit)

Fmul(a, b) == IF Abs(a) >= Abs(b) THEN MulSplit(a, b) ELSE MulSplit(b, a)

\* a / b  (b > 0)
Fdiv(a, b) ==
    LET d == GCD(b, Unit)
        m == Unit \div d
        e == b \div d
    IN  (a \div e) * m + RoundDiv((a % e) * m, e)

\* Math.max(0, y)
Math_max0(y) == IF y > 0 THEN y ELSE 0

Math_PI == RoundDiv(31416 * Unit, 10000)

\* Math.sin on [-PI/2, PI/2]: its Taylor polynomial up to x^9, Horner form
Math_sin(x) ==
    LET x2 == Fmul(x, x)
        t4 == Num(1) - Fdiv(x2, Num(72))
        t3 == Num(1) - Fmul(Fdiv(x2, Num(42)), t4)
        t2 == Num(1) - Fmul(Fdiv(x2, Num(20)), t3)
        t1 == Num(1) - Fmul(Fdiv(x2, Num(6)), t2)
    IN  Fmul(x, t1)

-----------------------------------------------------------------------------
(* calculateRealisticTrajectory (App.tsx 289-339) *)

Vector3(x, y, z) == [x |-> x, y |-> y, z |-> z]

g == RoundDiv(981 * Unit, 100)

\* const launchAngle = data.launchAngle * Math.PI / 180
LaunchAngle(d) == Fdiv(Fmul(d.launchAngle, Math_PI), Num(180))

\* const v0 = data.ballSpeed / 3.6
V0(d) == Fdiv(d.ballSpeed, RoundDiv(36 * Unit, 10))

\* const vy = v0 * Math.sin(launchAngle)   (vx is computed and never read)
Vy(d) == Fmul(V0(d), Math_sin(LaunchAngle(d)))

\* const flightTime = (2 * vy) / g
FlightTime(vy) == Fdiv(Fmul(Num(2), vy), g)

\* the clamp left out
ClampY_unclamped(y) == y

\* y = Math.max(0, y)
ClampY(y) == Math_max0(y)

\* the flight loop started at 1 and run one step further
FlightIndices_shifted == 1 .. flightSteps + 1

\* the loop variable of the flight loop: for (let i = 0; i <= flightSteps; i++)
FlightIndices == 0 .. flightSteps

\* one iteration of the flight loop
FlightPoint(d, vy, flightTime, i) ==
    LET t        == Fmul(Fdiv(Num(i), Num(flightSteps)), flightTime)
        progress == Fdiv(Num(i), Num(flightSteps))
        x        == Fmul(d.side, progress)
        z        == Fmul(0 - d.carry, progress)
        y        == Fmul(vy, t)
                      - Fmul(Fmul(Fmul(RoundDiv(5 * Unit, 10), g), t), t)
    IN  Vector3(x, ClampY(y), z)

\* const rollDeceleration = 1 - (progress * progress)
RollDeceleration(progress) == Num(1) - Fmul(progress, progress)

\* const y = 0.15
RollHeight == RoundDiv(15 * Unit, 100)

\* the roll phase entered for a roll distance of zero too
HasRoll_orZero(rollDistance) == rollDistance >= 0

\* if (rollDistance > 0)
HasRoll(rollDistance) == rollDistance > 0

\* the roll loop stopped one step early (i < rollSteps)
RollIndices_short == 1 .. rollSteps - 1

\* the loop variable of the roll loop: for (let i = 1; i <= rollSteps; i++)
RollIndices == 1 .. rollSteps

\* one iteration of the roll loop
RollPoint(d, i) ==
    LET rollDistance == d.total - d.carry
        progress     == Fdiv(Num(i), Num(rollSteps))
        x == d.side + Fmul(Fmul(d.side, RoundDiv(1 * Unit, 10)), progress)
        z == (0 - d.carry)
               - Fmul(Fmul(rollDistance, progress), RollDeceleration(progress))
    IN  Vector3(x, RollHeight, z)

\* the first value a loop variable ranging over S takes
First(S) == CHOOSE i \in S : \A j \in S : i <= j

\* points.push in loop order: the flight samples, then the roll samples
calculateRealisticTrajectory(d) ==
    LET vy         == Vy(d)
        flightTime == FlightTime(vy)
        flight == [k \in 1 .. Cardinality(FlightIndices) |->
                      FlightPoint(d, vy, flightTime, First(FlightIndices) + k - 1)]
        roll   == IF HasRoll(d.total - d.carry)
                  THEN [k \in 1 .. Cardinality(RollIndices) |->
                           RollPoint(d, First(RollIndices) + k - 1)]
                  ELSE << >>
    IN  flight \o roll

ShotData(carry, total, ballSpeed, launchAngle, side) ==
    [carry |-> Num(carry), total |-> Num(total), ballSpeed |-> Num(ballSpeed),
     launchAngle |-> Num(launchAngle), spinRate |-> Num(2500),
     clubSpeed |-> Num(160), apex |-> Num(28), side |-> Num(side)]

\* ShotMetrics preconditions (spec 4.1): carry > 0, ballSpeed > 0, total >= carry
Valid(d) == d.carry > 0 /\ d.ballSpeed > 0 /\ d.total >= d.carry

-----------------------------------------------------------------------------
(* Inputs *)

Carries == {0, 120, 150, 200}

Rolls == {-10, 0, 5, 15, 20}

BallSpeeds == {-50, 0, 180, 220, 240}

LaunchAngles == {-10, 0, 8, 12, 20, 45}

Sides == {-10, -5, 0, 10}

SynthInputs ==
    {ShotData(c, c + r, s, a, l) :
        c \in Carries, r \in Rolls, s \in BallSpeeds, a \in LaunchAngles, l \in Sides}

\* currentShotData === null
NoShot == [null |-> TRUE]

\* no live interval
NoInterval == [cleared |-> TRUE]

-----------------------------------------------------------------------------
(* The synthesizer on its own: one call on any input *)

AppInit ==
    /\ currentTrajectory = << >>
    /\ shotHistory = << >>
    /\ currentShotData = NoShot
    /\ isAnimating = FALSE
    /\ currentIndex = 0
    /\ interval = NoInterval
    /\ visibleShots = << >>
    /\ consoleErrors = 0

SynthInit ==
    /\ data \in SynthInputs
    /\ points = << >>
    /\ AppInit

Calculate ==
    /\ points = << >>
    /\ points' = calculateRealisticTrajectory(data)
    /\ UNCHANGED <<data, appVars>>

SynthNext == Calculate

SynthSpec == SynthInit /\ [][SynthNext]_vars

-----------------------------------------------------------------------------
(* Claims about calculateRealisticTrajectory, under SynthSpec *)

Called == points # << >>

Last(seq) == seq[Len(seq)]

\* C1: for every valid ShotMetrics with total > carry the last point of the
\* returned sequence has z = -total.
C1_LastPointAtTotal ==
    (Called /\ Valid(data) /\ data.total > data.carry)
        => Last(points).z = 0 - data.total

\* C2: for every valid ShotMetrics |z| is non-decreasing over every pair of
\* consecutive points, within the 81 flight samples and within the 20 roll
\* samples.
C2_DownrangeMonotone ==
    (Called /\ Valid(data))
        => \A k \in 1 .. Len(points) - 1 :
              k # flightSteps + 1 => Abs(points[k + 1].z) >= Abs(points[k].z)

\* C6: with carry > 0 and total <= carry (every valid ShotMetrics without roll
\* is such an input) no roll sample is appended: the result has exactly 81
\* points and no point lies further downrange than carry.
C6_NoRollWhenTotalAtMostCarry ==
    (Called /\ data.carry > 0 /\ data.total <= data.carry)
        => /\ Len(points) = 81
           /\ \A k \in 1 .. Len(points) : Abs(points[k].z) <= data.carry

C6_Witness ==
    /\ Called /\ Valid(data) /\ data.total = data.carry
    /\ Len(points) = 81
    /\ Abs(Last(points).z) = data.carry

\* C7: for every valid ShotMetrics with total > carry the result is the 81
\* flight samples followed by exactly 20 roll samples (101 points), and every
\* roll sample has height 0.15.
C7_RollSamples ==
    (Called /\ Valid(data) /\ data.total > data.carry)
        => /\ Len(points) = 101
           /\ \A k \in 82 .. Len(points) : points[k].y * 100 = 15 * Unit

C7_Witness ==
    /\ Called /\ Valid(data) /\ data.total > data.carry
    /\ Len(points) = 101
    /\ points[101].y * 100 = 15 * Unit

\* C8: every point of every returned trajectory has height y >= 0, whatever
\* the input (launchAngle <= 0, ballSpeed <= 0, total < carry included).
C8_HeightNonNegative ==
    Called => \A k \in 1 .. Len(points) : points[k].y >= 0

C8_Witness ==
    /\ Called
    /\ data.launchAngle < 0
    /\ data.ballSpeed > 0
    /\ \A k \in 1 .. Len(points) : points[k].y >= 0
    /\ points[41].y > 0

\* C9: for every valid ShotMetrics and every flight sample i in 0..80,
\* x = side * i/80 and z = -carry * i/80; sample 0 is at (0, 0, 0) and sample 80
\* at x = side, z = -carry, with a height of 0 up to the rounding of the
\* arithmetic (at most 0.01).
C9_FlightSamples ==
    (Called /\ Valid(data))
        => /\ \A i \in 0 .. 80 :
                /\ points[i + 1].x * 80 = data.side * i
                /\ points[i + 1].z * 80 = (0 - data.carry) * i
           /\ points[1] = Vector3(0, 0, 0)
           /\ points[81].x = data.side
           /\ points[81].z = 0 - data.carry
           /\ points[81].y * 100 <= Unit

C9_Witness ==
    /\ Called /\ Valid(data)
    /\ data.side # 0
    /\ points[41].x * 2 = data.side
    /\ points[41].y > 0
    /\ points[81].z = 0 - data.carry

-----------------------------------------------------------------------------
(* The application: App, AnimatedGolfBall, TrailLines (App.tsx 35-128, 357-444) *)

MaxHistory == 6

MaxErrors == 1

\* generateRandomShot, rounded by sendTestShot
TestShots == {ShotData(150, 165, 220, 12, -5)}

\* the shots the connector sends
FeedShots == {ShotData(150, 165, 220, 12, -5), ShotData(120, 120, 180, 8, 0)}

\* event.data of a websocket message: the text of a shot, or text that is no JSON
Messages == {[text |-> "shot", shot |-> d] : d \in FeedShots}
                \cup {[text |-> "{carry:"]}

\* JSON.parse(event.data): the value, or a SyntaxError thrown
JSON_parse(msg) ==
    IF msg.text = "shot"
    THEN [threw |-> FALSE, value |-> msg.shot]
    ELSE [threw |-> TRUE]

\* calculateRealisticTrajectory on the shots the application receives
Trajectories ==
    [d \in TestShots \cup FeedShots |-> calculateRealisticTrajectory(d)]

\* data.trajectory = trajectory
WithTrajectory(d, trajectory) ==
    [carry |-> d.carry, total |-> d.total, ballSpeed |-> d.ballSpeed,
     launchAngle |-> d.launchAngle, spinRate |-> d.spinRate,
     clubSpeed |-> d.clubSpeed, apex |-> d.apex, side |-> d.side,
     trajectory |-> trajectory]

\* the window kept from the front of the history instead of its end
Slice_fromFront(seq, n) == SubSeq(seq, 1, IF Len(seq) < n THEN Len(seq) ELSE n)

\* seq.slice(-n)
Slice(seq, n) == SubSeq(seq, IF Len(seq) > n THEN Len(seq) - n + 1 ELSE 1, Len(seq))

\* TrailLines: const visibleShots = shotHistory.slice(-5)
TrailLines(history) == Slice(history, 5)

\* AnimatedGolfBall's effect, run for a render with these props: none for an
\* empty trajectory, else a setInterval whose callback closes over the
\* trajectory and over onAnimationComplete, that is over the currentShotData
\* of the render that made it.  (animationSpeed is read once, by setInterval;
\* its later assignment changes no delay.)
Effect(trajectory, shot) ==
    IF Len(trajectory) = 0
    THEN NoInterval
    ELSE [trajectory |-> trajectory, currentShotData |-> shot]

\* A render of App after a state change: TrailLines takes its slice, and since
\* handleAnimationComplete is a new function in every render, the effect of
\* AnimatedGolfBall (deps [trajectory, onAnimationComplete]) is cleaned up and
\* run again.  currentIndex is state of AnimatedGolfBall and is kept.
Render ==
    /\ visibleShots' = TrailLines(shotHistory')
    /\ interval' = Effect(currentTrajectory', currentShotData')

\* The render whose closures the websocket effect (deps []) captured: the
\* first one, with the initial useState values.
MountIsAnimating == FALSE

\* processShot, as the closure of a render in which isAnimating had the
\* given value
processShot(d, closureIsAnimating) ==
    IF closureIsAnimating
    THEN UNCHANGED appVars
    ELSE LET trajectory == Trajectories[d]
         IN  /\ currentShotData' = WithTrajectory(d, trajectory)
             /\ currentTrajectory' = trajectory
             /\ isAnimating' = TRUE
             /\ UNCHANGED <<shotHistory, currentIndex, consoleErrors>>
             /\ Render

\* sendTestShot: the click handler of the current render
sendTestShot ==
    /\ \E d \in TestShots :
          IF isAnimating
          THEN UNCHANGED appVars
          ELSE processShot(d, isAnimating)
    /\ UNCHANGED <<data, points>>

\* websocket.onmessage: the handler installed by the mount effect
WsMessage ==
    /\ \E msg \in Messages :
          LET parsed == JSON_parse(msg)
          IN  IF parsed.threw
              THEN /\ consoleErrors < MaxErrors
                   /\ consoleErrors' = consoleErrors + 1
                   /\ UNCHANGED <<currentTrajectory, shotHistory, currentShotData,
                                  isAnimating, currentIndex, interval, visibleShots>>
              ELSE processShot(parsed.value, MountIsAnimating)
    /\ UNCHANGED <<data, points>>

\* an error handler that also drops the shot in playback
WsError_reset ==
    /\ consoleErrors < MaxErrors
    /\ consoleErrors' = consoleErrors + 1
    /\ isAnimating' = FALSE
    /\ currentTrajectory' = << >>
    /\ UNCHANGED <<shotHistory, currentShotData, currentIndex>>
    /\ Render
    /\ UNCHANGED <<data, points>>

\* websocket.onerror: console.error
WsError ==
    /\ consoleErrors < MaxErrors
    /\ consoleErrors' = consoleErrors + 1
    /\ UNCHANGED <<currentTrajectory, shotHistory, currentShotData,
                   isAnimating, currentIndex, interval, visibleShots>>
    /\ UNCHANGED <<data, points>>

\* a completion handler that archives the shot and leaves isAnimating set
handleAnimationComplete_stillAnimating(shot) ==
    /\ shotHistory' = IF shot # NoShot THEN Append(shotHistory, shot) ELSE shotHistory
    /\ isAnimating' = isAnimating

\* handleAnimationComplete, as the closure of a render in which
\* currentShotData had the given value
handleAnimationComplete(shot) ==
    /\ shotHistory' = IF shot # NoShot THEN Append(shotHistory, shot) ELSE shotHistory
    /\ isAnimating' = FALSE

\* one firing of the interval: setCurrentIndex(prev => ...)
Tick ==
    /\ interval # NoInterval
    /\ LET prev == currentIndex
           next == prev + 1
       IN  IF next >= Len(interval.trajectory)
           THEN /\ Len(shotHistory) < MaxHistory
                /\ handleAnimationComplete(interval.currentShotData)
                /\ currentIndex' = Len(interval.trajectory) - 1
                /\ UNCHANGED <<currentTrajectory, currentShotData, consoleErrors>>
                /\ IF shotHistory' # shotHistory \/ isAnimating' # isAnimating
                   THEN Render
                   ELSE /\ interval' = NoInterval
                        /\ UNCHANGED visibleShots
           ELSE /\ currentIndex' = next
                /\ UNCHANGED <<currentTrajectory, shotHistory, currentShotData,
                               isAnimating, interval, visibleShots, consoleErrors>>
    /\ UNCHANGED <<data, points>>

Init ==
    /\ data = NoShot
    /\ points = << >>
    /\ AppInit

Next ==
    \/ sendTestShot
    \/ WsMessage
    \/ WsError
    \/ Tick

Spec == Init /\ [][Next]_vars

\* the application with no connector running: test shots only
ButtonNext ==
    \/ sendTestShot
    \/ Tick

ButtonSpec == Init /\ [][ButtonNext]_vars

\* setInterval keeps firing its callback for as long as the interval is live
LiveSpec == Init /\ [][Next]_vars /\ WF_vars(Tick)

-----------------------------------------------------------------------------
(* Claims about the application, under Spec *)

\* C3: a shot that arrives while the previous shot is still playing (from its
\* acceptance until its completion callback) is dropped, from the websocket as
\* from the test button: currentTrajectory and currentShotData keep the values
\* of the shot in playback.
C3_ShotDroppedWhileAnimating ==
    [][isAnimating => /\ currentTrajectory' = currentTrajectory
                      /\ currentShotData' = currentShotData]_vars

\* C4: the completion callback runs exactly once for each accepted shot, so
\* handleAnimationComplete appends that shot to shotHistory exactly once: every
\* step that appends to shotHistory starts with a shot in playback (accepted
\* and not yet completed).
C4_CompletionOncePerShot ==
    [][shotHistory' # shotHistory => isAnimating]_vars

\* C5 as stated: the shot history store never holds more than 5 entries.
C5_HistoryAtMostFive == Len(shotHistory) <= 5

\* C5 as amended: shotHistory only grows, by one entry at its end at a time,
\* and nothing is evicted; the trail TrailLines renders holds at most 5
\* entries, the last min(5, length) entries of shotHistory in append order.
C5_VisibleWindow ==
    /\ [](/\ Len(visibleShots) <= 5
          /\ Len(visibleShots) = (IF Len(shotHistory) < 5 THEN Len(shotHistory) ELSE 5)
          /\ \A k \in 1 .. Len(visibleShots) :
                visibleShots[k]
                    = shotHistory[Len(shotHistory) - Len(visibleShots) + k])
    /\ [][\/ shotHistory' = shotHistory
          \/ /\ Len(shotHistory') = Len(shotHistory) + 1
             /\ SubSeq(shotHistory', 1, Len(shotHistory)) = shotHistory]_vars

C5_Witness ==
    /\ Len(shotHistory) = 6
    /\ Len(visibleShots) = 5
    /\ shotHistory[1] # shotHistory[2]
    /\ visibleShots[1] = shotHistory[2]

\* C10: a websocket error event or a message that is no JSON changes none of
\* currentTrajectory, currentShotData, shotHistory, isAnimating (nor the
\* playback: cursor and timer), and after it a test shot is still accepted
\* whenever no shot is in playback.
C10_FeedFailureIgnored ==
    /\ [][consoleErrors' # consoleErrors
            => UNCHANGED <<currentTrajectory, currentShotData, shotHistory,
                           isAnimating, currentIndex, interval, visibleShots>>]_vars
    /\ []((consoleErrors > 0 /\ ~isAnimating)
            => ENABLED (sendTestShot /\ isAnimating'))

C10_Witness ==
    /\ consoleErrors > 0
    /\ isAnimating
    /\ currentIndex > 0
    /\ Len(shotHistory) > 0

-----------------------------------------------------------------------------
(* Claims about the timer-driven playback, under LiveSpec and ButtonSpec *)

\* C11: once a shot is accepted (isAnimating set, trajectory not empty), fair
\* timer ticks bring the cursor to index length-1, the completion callback runs
\* and isAnimating becomes false, and a test shot is then accepted.  The
\* history, which the code never bounds, has room for the entry (fewer than
\* MaxHistory entries).
C11_PlaybackCompletes ==
    (isAnimating /\ Len(currentTrajectory) > 0 /\ Len(shotHistory) < MaxHistory)
        ~> (/\ ~isAnimating
            /\ currentIndex = Len(currentTrajectory) - 1
            /\ ENABLED (sendTestShot /\ isAnimating'))

C11_Witness ==
    /\ ~isAnimating
    /\ Len(shotHistory) = 1
    /\ currentIndex = Len(currentTrajectory) - 1
    /\ currentShotData # NoShot

\* C12: every accepted shot, the second and later ones included, starts its
\* playback with the cursor at sample index 0 of its trajectory; the cursor
\* value left by the previous shot does not carry over.
C12_CursorStartsAtZero ==
    [][(~isAnimating /\ isAnimating') => currentIndex' = 0]_vars

-----------------------------------------------------------------------------
(* The frame-driven variant of the application (part_000): the same App    *)
(* state, a synthesizer of steps + 1 samples and a playback driven by      *)
(* useFrame instead of setInterval.                                        *)

steps == 100

\* generateRandomShot of part_000 (total drawn independently of carry),
\* rounded by sendTestShot; the connector's shots are taken from the same set
Shots_frame ==
    {ShotData(c, t, s, 12, l) :
        c \in {120, 150, 200}, t \in {130, 165, 220}, s \in {180, 220, 240},
        l \in {-5, 5}}

Messages_frame == {[text |-> "shot", shot |-> d] : d \in Shots_frame}
                      \cup {[text |-> "{carry:"]}

\* calculateRealisticTrajectory of part_000: for (let i = 0; i <= steps; i++)
\* pushes one point per iteration.  A point is kept as the iteration i that
\* pushed it: its coordinates are read only to place the mesh.
calculateRealisticTrajectory_frame(d) == [k \in 1 .. steps + 1 |-> [i |-> k - 1]]

\* a render of App in part_000: TrailLines takes its slice; there is no effect
\* and no interval, and currentIndex of AnimatedGolfBall is kept
Render_frame ==
    /\ visibleShots' = TrailLines(shotHistory')
    /\ UNCHANGED interval

processShot_frame(d, closureIsAnimating) ==
    IF closureIsAnimating
    THEN UNCHANGED appVars
    ELSE LET trajectory == calculateRealisticTrajectory_frame(d)
         IN  /\ currentShotData' = WithTrajectory(d, trajectory)
             /\ currentTrajectory' = trajectory
             /\ isAnimating' = TRUE
             /\ UNCHANGED <<shotHistory, currentIndex, consoleErrors>>
             /\ Render_frame

sendTestShot_frame ==
    /\ \E d \in Shots_frame :
          IF isAnimating
          THEN UNCHANGED appVars
          ELSE processShot_frame(d, isAnimating)
    /\ UNCHANGED <<data, points>>

WsMessage_frame ==
    /\ \E msg \in Messages_frame :
          LET parsed == JSON_parse(msg)
          IN  IF parsed.threw
              THEN /\ consoleErrors < MaxErrors
                   /\ consoleErrors' = consoleErrors + 1
                   /\ UNCHANGED <<currentTrajectory, shotHistory, currentShotData,
                                  isAnimating, currentIndex, interval, visibleShots>>
              ELSE processShot_frame(parsed.value, MountIsAnimating)
    /\ UNCHANGED <<data, points>>

\* const speed = Math.max(1, Math.floor((trajectory.length - currentIndex) / 10))
Speed(length, index) ==
    IF (length - index) \div 10 > 1 THEN (length - index) \div 10 ELSE 1

\* the callback of useFrame, with the currentIndex of the latest render; the
\* mesh is mounted (meshRef.current set) whenever the trajectory is not empty
Frame ==
    /\ Len(currentTrajectory) > 0
    /\ currentIndex < Len(currentTrajectory)
    /\ LET advanced == IF currentIndex % Speed(Len(currentTrajectory), currentIndex) = 0
                       THEN currentIndex + 1
                       ELSE currentIndex
       IN  IF currentIndex >= Len(currentTrajectory) - 1
           THEN /\ Len(shotHistory) < MaxHistory
                /\ handleAnimationComplete(currentShotData)
                /\ currentIndex' = 0
                /\ UNCHANGED <<currentTrajectory, currentShotData, consoleErrors>>
                /\ Render_frame
           ELSE /\ currentIndex' = advanced
                /\ UNCHANGED <<currentTrajectory, shotHistory, currentShotData,
                               isAnimating, interval, visibleShots, consoleErrors>>
    /\ UNCHANGED <<data, points>>

FrameNext ==
    \/ sendTestShot_frame
    \/ WsMessage_frame
    \/ WsError
    \/ Frame

\* the frame loop calls the useFrame callback on every frame
FrameSpec == Init /\ [][FrameNext]_vars /\ WF_vars(Frame)

\* C13: in the frame-driven playback of the 101-point trajectory, at every
\* cursor index short of the final sample a frame callback advances the
\* cursor, so that fair frames bring it through every index to the final
\* sample, where the completion callback runs; the cursor never stays at an
\* intermediate index for ever.
C13_FrameCursorAdvances ==
    (isAnimating /\ Len(currentTrajectory) = steps + 1 /\ currentIndex < steps)
        => ENABLED <<Frame>>_vars

====
